---------------------------- MODULE Spec2Model ----------------------------
(***************************************************************************)
(* MedicalCard (src/components/MedicalCard.tsx, the revision with the      *)
(* localStorage cache, lines 389-903): upload validation, the per-worker   *)
(* cache in localStorage, the cache-load effect and the status badge.      *)
(*                                                                         *)
(* JavaScript values are tagged records so that a cache entry written by   *)
(* anything (a number where a string belongs, null, a missing field) can   *)
(* be told apart; the text kept in localStorage is a sequence of JSON      *)
(* tokens, produced by JSONStringify and read back by JSONParse.           *)
(***************************************************************************)
EXTENDS Integers, Sequences, FiniteSets, TLC

(***************************************************************************)
(* Bounds                                                                  *)
(***************************************************************************)
\* Date.now() takes the values 1..MaxClock (milliseconds after an epoch).
MaxClock == 2
\* At most MaxReads FileReader reads are in progress at once.
MaxReads == 1

(***************************************************************************)
(* JavaScript values                                                       *)
(***************************************************************************)
JsUndef == [t |-> "undefined", s |-> "", n |-> 0]
JsNull == [t |-> "null", s |-> "", n |-> 0]
JsStr(str) == [t |-> "string", s |-> str, n |-> 0]
JsNum(num) == [t |-> "number", s |-> "", n |-> num]

\* ToBoolean, as `a && b` and `if (a)` apply it.
Truthy(v) ==
    CASE v.t = "undefined" -> FALSE
      [] v.t = "null" -> FALSE
      [] v.t = "string" -> v.s # ""
      [] v.t = "number" -> v.n # 0
      [] OTHER -> TRUE

\* type FileData = {name, size, type, uploadedAt?}; an absent field reads
\* as undefined.
FieldNames == <<"name", "size", "type", "uploadedAt">>
EmptyObject == [name |-> JsUndef, size |-> JsUndef, type |-> JsUndef,
                uploadedAt |-> JsUndef]

\* FileData | null, and File | null.
NullFileData == [isNull |-> TRUE, obj |-> EmptyObject]
SomeFileData(o) == [isNull |-> FALSE, obj |-> o]
NoFile == [name |-> "", size |-> 0, type |-> ""]
NullFileObject == [isNull |-> TRUE, file |-> NoFile]
SomeFileObject(f) == [isNull |-> FALSE, file |-> f]

\* new Date().toISOString() at clock value ms.
ToISOString(ms) == "2025-01-01T00:00:00.00" \o ToString(ms) \o "Z"

(***************************************************************************)
(* JSON text: a sequence of tokens                                         *)
(***************************************************************************)
Punct(c) == [k |-> "punct", s |-> c, n |-> 0]
StrTok(str) == [k |-> "string", s |-> str, n |-> 0]
NumTok(num) == [k |-> "number", s |-> "", n |-> num]
WordTok(w) == [k |-> "word", s |-> w, n |-> 0]

\* Variant: every value written through String(), numbers included.
ValueTokenAsString(v) ==
    CASE v.t = "string" -> StrTok(v.s)
      [] v.t = "number" -> StrTok(ToString(v.n))
      [] OTHER -> WordTok("null")

\* The token a primitive value is written as.
ValueToken(v) ==
    CASE v.t = "string" -> StrTok(v.s)
      [] v.t = "number" -> NumTok(v.n)
      [] OTHER -> WordTok("null")

RECURSIVE StringifyMembers(_, _, _)
StringifyMembers(o, i, first) ==
    IF i > Len(FieldNames) THEN <<>>
    ELSE LET key == FieldNames[i]
         IN  IF o[key].t = "undefined"
             THEN StringifyMembers(o, i + 1, first)
             ELSE (IF first THEN <<>> ELSE <<Punct(",")>>)
                  \o <<StrTok(key), Punct(":"), ValueToken(o[key])>>
                  \o StringifyMembers(o, i + 1, FALSE)

\* JSON.stringify of an object: its defined fields in insertion order.
JSONStringify(o) ==
    <<Punct("{")>> \o StringifyMembers(o, 1, TRUE) \o <<Punct("}")>>

\* The value of a primitive token; a bare word other than null is no JSON.
IsValueToken(tok) ==
    \/ tok.k \in {"string", "number"}
    \/ tok.k = "word" /\ tok.s = "null"
TokenValue(tok) ==
    CASE tok.k = "string" -> JsStr(tok.s)
      [] tok.k = "number" -> JsNum(tok.n)
      [] OTHER -> JsNull

SyntaxError == [ok |-> FALSE, isObj |-> FALSE, prim |-> JsUndef,
                obj |-> EmptyObject]
ParsedPrim(v) == [ok |-> TRUE, isObj |-> FALSE, prim |-> v,
                  obj |-> EmptyObject]
ParsedObj(o) == [ok |-> TRUE, isObj |-> TRUE, prim |-> JsUndef, obj |-> o]

IsFieldName(str) == \E j \in 1..Len(FieldNames) : FieldNames[j] = str

\* Members of an object from token i on: "key" : value, then , or }.
\* A repeated key keeps its last value; a key that is no FileData field is
\* parsed and not read by the component.
RECURSIVE ParseMembers(_, _, _)
ParseMembers(toks, i, acc) ==
    IF i + 3 > Len(toks) THEN SyntaxError
    ELSE IF ~ ( /\ toks[i].k = "string"
                /\ toks[i + 1] = Punct(":")
                /\ IsValueToken(toks[i + 2]) ) THEN SyntaxError
    ELSE LET key == toks[i].s
             next == IF IsFieldName(key)
                     THEN [acc EXCEPT ![key] = TokenValue(toks[i + 2])]
                     ELSE acc
         IN  IF toks[i + 3] = Punct("}")
             THEN (IF i + 3 = Len(toks) THEN ParsedObj(next) ELSE SyntaxError)
             ELSE IF toks[i + 3] = Punct(",")
             THEN ParseMembers(toks, i + 4, next)
             ELSE SyntaxError

\* JSON.parse over primitives and flat objects; SyntaxError is the throw.
JSONParse(toks) ==
    IF Len(toks) = 0 THEN SyntaxError
    ELSE IF Len(toks) = 1
    THEN (IF IsValueToken(toks[1]) THEN ParsedPrim(TokenValue(toks[1]))
          ELSE SyntaxError)
    ELSE IF toks[1] # Punct("{") THEN SyntaxError
    ELSE IF Len(toks) = 2
    THEN (IF toks[2] = Punct("}") THEN ParsedObj(EmptyObject)
          ELSE SyntaxError)
    ELSE ParseMembers(toks, 2, EmptyObject)

(***************************************************************************)
(* Inputs                                                                  *)
(***************************************************************************)
Pdf == "application/pdf"
Docx == "application/vnd.openxmlformats-officedocument.wordprocessingml.document"
Doc == "application/msword"

\* worker.name, a string of characters: "John Doe", and a name that differs
\* from it only in its whitespace (a space and a tab between the words).
JohnDoe == <<"J", "o", "h", "n", " ", "D", "o", "e">>
JohnDoeWide == <<"J", "o", "h", "n", " ", "\t", "D", "o", "e">>
WorkerNames == {JohnDoe, JohnDoeWide}
\* Another worker of the page, with a cache key of his own.
JohnSmith == <<"j", "o", "h", "n", " ", "s", "m", "i", "t", "h">>

\* The characters /\s/ matches, among those of the names.
Whitespace == {" ", "\t"}

\* str.replace(/\s+/g, "_"): every maximal run of whitespace becomes one "_".
RECURSIVE ReplaceWhitespace(_, _)
ReplaceWhitespace(str, i) ==
    IF i > Len(str) THEN <<>>
    ELSE IF str[i] \in Whitespace
    THEN (IF i > 1 /\ str[i - 1] \in Whitespace THEN <<>> ELSE <<"_">>)
         \o ReplaceWhitespace(str, i + 1)
    ELSE <<str[i]>> \o ReplaceWhitespace(str, i + 1)

\* `medical_result_${worker.name.replace(/\s+/g, "_")}`
StorageKey(name) == <<"medical_result_">> \o ReplaceWhitespace(name, 1)
StorageKeys == {StorageKey(w) : w \in WorkerNames \cup {JohnSmith}}

\* The defaults of the props, and a caller's own configuration.
DefaultMaxFileSizeMB == 10
DefaultAllowedFileTypes == <<Pdf, Docx, Doc>>
DefaultConfig == [maxFileSizeMB |-> DefaultMaxFileSizeMB,
                  allowedFileTypes |-> DefaultAllowedFileTypes]
CustomConfig == [maxFileSizeMB |-> 5,
                 allowedFileTypes |-> <<Pdf, "image/png">>]
Configs == {DefaultConfig, CustomConfig}

\* Files the user selects or drops.
Files ==
    { [name |-> "report.pdf", size |-> 2 * 1024 * 1024, type |-> Pdf],
      [name |-> "scan.doc", size |-> 10 * 1024 * 1024, type |-> Doc],
      [name |-> "huge.pdf", size |-> 10 * 1024 * 1024 + 1, type |-> Pdf],
      [name |-> "notes.txt", size |-> 512, type |-> "text/plain"],
      [name |-> "empty.pdf", size |-> 0, type |-> Pdf],
      [name |-> "", size |-> 2048, type |-> Pdf] }

\* event.dataTransfer.files / event.target.files: empty, or one file.
FileLists == {<<>>} \cup {<<f>> : f \in Files}

\* resultFile as the caller passes it: null (the default) or a record.
CallerRecord == [EmptyObject EXCEPT !.name = JsStr("lab.pdf"),
                                    !.size = JsNum(1024),
                                    !.type = JsStr(Pdf)]
ResultFiles == {NullFileData, SomeFileData(CallerRecord)}

\* The status prop: undefined, a member of the enumeration, another string.
StatusNames == {"accepted", "pending", "replace", "failed", "unknown"}
StatusProps == {JsUndef} \cup {JsStr(s) : s \in StatusNames \cup {"archived"}}

\* What localStorage may hold under a worker's key when the page loads.
OldRecord == [name |-> JsStr("old.pdf"), size |-> JsNum(4096),
              type |-> JsStr(Pdf), uploadedAt |-> JsStr(ToISOString(0))]
NotJson == <<Punct("{"), WordTok("not"), WordTok("json")>>
SeedTexts ==
    { JSONStringify(OldRecord),
      NotJson,
      <<>>,
      <<WordTok("null")>>,
      JSONStringify([OldRecord EXCEPT !.name = JsUndef]),
      JSONStringify([OldRecord EXCEPT !.size = JsUndef]),
      JSONStringify([OldRecord EXCEPT !.type = JsUndef]),
      JSONStringify([OldRecord EXCEPT !.name = JsStr("")]),
      JSONStringify([OldRecord EXCEPT !.type = JsStr("")]),
      JSONStringify([OldRecord EXCEPT !.size = JsNum(0)]),
      JSONStringify([OldRecord EXCEPT !.size = JsNum(-1)]),
      JSONStringify([OldRecord EXCEPT !.size = JsStr("big")]) }

(***************************************************************************)
(* localStorage                                                            *)
(***************************************************************************)
Absent == [has |-> FALSE, text |-> <<>>]
Entry(text) == [has |-> TRUE, text |-> text]
EmptyStorage == [k \in StorageKeys |-> Absent]

\* getItem: the entry (null when there is none).
GetItem(ls, key) == ls[key]
SetItem(ls, key, text) == [ls EXCEPT ![key] = Entry(text)]
RemoveItem(ls, key) == [ls EXCEPT ![key] = Absent]
\* `if (saved)`: neither null nor the empty string.
SavedTruthy(saved) == saved.has /\ Len(saved.text) > 0

(***************************************************************************)
(* The status badge                                                        *)
(***************************************************************************)
\* statusMap of the revision that has the cache: three entries.
StatusMap ==
    [accepted |-> [label |-> "Accepted", bgColor |-> "bg-green-100",
                   textColor |-> "text-green-500",
                   borderColor |-> "border-green-300"],
     pending |-> [label |-> "Pending", bgColor |-> "bg-[#FEF9C2]",
                  textColor |-> "text-[#938700]",
                  borderColor |-> "border-[#9E9100]"],
     replace |-> [label |-> "Replace Worker", bgColor |-> "bg-red-100",
                  textColor |-> "text-red-500",
                  borderColor |-> "border-red-300"]]
NoTuple == [label |-> "", bgColor |-> "", textColor |-> "",
            borderColor |-> ""]

\* status = "pending" when the prop is undefined (the destructuring default).
EffectiveStatus(statusProp) ==
    IF statusProp.t = "undefined" THEN "pending" ELSE statusProp.s

\* const statusConfig = statusMap[status]: undefined for a missing key.
StatusConfig(status) ==
    IF status \in DOMAIN StatusMap
    THEN [defined |-> TRUE, tuple |-> StatusMap[status]]
    ELSE [defined |-> FALSE, tuple |-> NoTuple]

\* The badge reads statusConfig.bgColor, .textColor, .borderColor, .label:
\* a TypeError when statusConfig is undefined.
RenderThrows(status) == ~ StatusConfig(status).defined

(***************************************************************************)
(* handleFileUpload                                                        *)
(***************************************************************************)
\* A callback invocation: which prop was called, with what argument.
OnFileUpload(fd) == [fn |-> "onFileUpload", file |-> SomeFileData(fd),
                     status |-> ""]
OnStatusChange(st) == [fn |-> "onStatusChange", file |-> NullFileData,
                       status |-> st]

\* Variant: the size compared in whole megabytes.
ExceedsSizeLimitWholeMB(file, maxFileSizeMB) ==
    file.size \div (1024 * 1024) > maxFileSizeMB

\* file.size > maxFileSizeMB * 1024 * 1024
ExceedsSizeLimit(file, maxFileSizeMB) ==
    file.size > maxFileSizeMB * 1024 * 1024

\* Variant: indexOf used as a truth value (-1 is truthy, 0 is falsy).
IncludesByIndexOf(list, x) == ~ (Len(list) > 0 /\ list[1] = x)

\* allowedFileTypes.includes(file.type)
Includes(list, x) == \E j \in 1..Len(list) : list[j] = x

\* The switch that names a MIME type in the rejection message.
ExtensionName(type) ==
    CASE type = Pdf -> "PDF"
      [] type = Docx -> "DOCX"
      [] type = Doc -> "DOC"
      [] OTHER -> type

\* allowedFileTypes.map(...).join(", "), as the pieces of the string.
RECURSIVE JoinExtensions(_, _)
JoinExtensions(types, i) ==
    IF i > Len(types) THEN <<>>
    ELSE (IF i > 1 THEN <<", ">> ELSE <<>>)
         \o <<ExtensionName(types[i])>> \o JoinExtensions(types, i + 1)

SizeAlert(maxFileSizeMB) ==
    <<"File size must be less than ", ToString(maxFileSizeMB), "MB">>
TypeAlert(allowedFileTypes) ==
    <<"Allowed file types: ">> \o JoinExtensions(allowedFileTypes, 1)

\* Variant: the record without its optional uploadedAt.
MakeFileDataNoTimestamp(file, ms) ==
    [name |-> JsStr(file.name), size |-> JsNum(file.size),
     type |-> JsStr(file.type), uploadedAt |-> JsUndef]

\* const fileData = {name, size, type, uploadedAt: new Date().toISOString()}
MakeFileData(file, ms) ==
    [name |-> JsStr(file.name), size |-> JsNum(file.size),
     type |-> JsStr(file.type), uploadedAt |-> JsStr(ToISOString(ms))]

\* Variant: the record is written only when the key has no entry yet.
SaveFileDataIfAbsent(ls, key, fileData, writeOk) ==
    IF writeOk
    THEN [storage |-> IF GetItem(ls, key).has THEN ls
                      ELSE SetItem(ls, key, JSONStringify(fileData)),
          warned |-> FALSE]
    ELSE [storage |-> ls, warned |-> TRUE]

\* The try block around setItem: a write that throws (quota) is caught and
\* warned about, and the storage is as it was.
SaveFileData(ls, key, fileData, writeOk) ==
    IF writeOk
    THEN [storage |-> SetItem(ls, key, JSONStringify(fileData)),
          warned |-> FALSE]
    ELSE [storage |-> ls, warned |-> TRUE]

\* Variant: setItem outside any try block, so that a write that throws ends
\* the handler before the callbacks (the state updates are already queued).
HandleFileUploadUncaught(file, config, workerName, ms, writeOk, uploaded, handle, ls) ==
    IF ExceedsSizeLimit(file, config.maxFileSizeMB)
    THEN [uploadedFile |-> uploaded, fileObject |-> handle, storage |-> ls,
          calls |-> <<>>, alert |-> SizeAlert(config.maxFileSizeMB),
          warned |-> FALSE, outcome |-> "too-large"]
    ELSE IF ~ Includes(config.allowedFileTypes, file.type)
    THEN [uploadedFile |-> uploaded, fileObject |-> handle, storage |-> ls,
          calls |-> <<>>, alert |-> TypeAlert(config.allowedFileTypes),
          warned |-> FALSE, outcome |-> "bad-type"]
    ELSE LET fileData == MakeFileData(file, ms)
         IN  [uploadedFile |-> SomeFileData(fileData),
              fileObject |-> SomeFileObject(file),
              storage |-> IF writeOk
                          THEN SetItem(ls, StorageKey(workerName),
                                       JSONStringify(fileData))
                          ELSE ls,
              calls |-> IF writeOk
                        THEN <<OnFileUpload(fileData),
                               OnStatusChange("pending")>>
                        ELSE <<>>,
              alert |-> <<>>, warned |-> FALSE, outcome |-> "uploaded"]

\* handleFileUpload(file) of an instance whose state is uploaded/handle, with
\* the storage ls: the state and storage after it, the callbacks it invoked
\* in order, the alert it showed.
HandleFileUpload(file, config, workerName, ms, writeOk, uploaded, handle, ls) ==
    IF ExceedsSizeLimit(file, config.maxFileSizeMB)
    THEN [uploadedFile |-> uploaded, fileObject |-> handle, storage |-> ls,
          calls |-> <<>>, alert |-> SizeAlert(config.maxFileSizeMB),
          warned |-> FALSE, outcome |-> "too-large"]
    ELSE IF ~ Includes(config.allowedFileTypes, file.type)
    THEN [uploadedFile |-> uploaded, fileObject |-> handle, storage |-> ls,
          calls |-> <<>>, alert |-> TypeAlert(config.allowedFileTypes),
          warned |-> FALSE, outcome |-> "bad-type"]
    ELSE LET fileData == MakeFileData(file, ms)
             saved == SaveFileData(ls, StorageKey(workerName), fileData,
                                   writeOk)
         IN  [uploadedFile |-> SomeFileData(fileData),
              fileObject |-> SomeFileObject(file),
              storage |-> saved.storage,
              calls |-> <<OnFileUpload(fileData), OnStatusChange("pending")>>,
              alert |-> <<>>, warned |-> saved.warned,
              outcome |-> "uploaded"]

(***************************************************************************)
(* The effect that loads the saved file info                               *)
(***************************************************************************)
\* parsedFile && parsedFile.name && parsedFile.size && parsedFile.type
HasRequiredFields(parsed) ==
    IF parsed.isObj
    THEN /\ Truthy(parsed.obj.name)
         /\ Truthy(parsed.obj.size)
         /\ Truthy(parsed.obj.type)
    ELSE FALSE

\* Variant: the caller's resultFile consulted before the cache.
LoadSavedFileResultFirst(workerName, resultFile, uploaded, ls) ==
    LET storageKey == StorageKey(workerName)
        saved == GetItem(ls, storageKey)
    IN  IF ~ resultFile.isNull
        THEN [uploadedFile |-> resultFile, storage |-> ls,
              branch |-> "resultFile"]
        ELSE IF SavedTruthy(saved)
        THEN LET parsedFile == JSONParse(saved.text)
             IN  IF ~ parsedFile.ok
                 THEN [uploadedFile |-> uploaded,
                       storage |-> RemoveItem(ls, storageKey),
                       branch |-> "removed"]
                 ELSE IF HasRequiredFields(parsedFile)
                 THEN [uploadedFile |-> SomeFileData(parsedFile.obj),
                       storage |-> ls, branch |-> "adopted"]
                 ELSE [uploadedFile |-> uploaded, storage |-> ls,
                       branch |-> "ignored"]
        ELSE [uploadedFile |-> uploaded, storage |-> ls, branch |-> "none"]

\* Variant: without an entry, uploadedFile is set to resultFile whatever it
\* is, null included.
LoadSavedFileUnguardedFallback(workerName, resultFile, uploaded, ls) ==
    LET storageKey == StorageKey(workerName)
        saved == GetItem(ls, storageKey)
    IN  IF SavedTruthy(saved)
        THEN LET parsedFile == JSONParse(saved.text)
             IN  IF ~ parsedFile.ok
                 THEN [uploadedFile |-> uploaded,
                       storage |-> RemoveItem(ls, storageKey),
                       branch |-> "removed"]
                 ELSE IF HasRequiredFields(parsedFile)
                 THEN [uploadedFile |-> SomeFileData(parsedFile.obj),
                       storage |-> ls, branch |-> "adopted"]
                 ELSE [uploadedFile |-> uploaded, storage |-> ls,
                       branch |-> "ignored"]
        ELSE [uploadedFile |-> resultFile, storage |-> ls,
              branch |-> "resultFile"]

\* The body of the effect once isClient is true: the uploadedFile state and
\* the storage after it, and which branch it took.
LoadSavedFile(workerName, resultFile, uploaded, ls) ==
    LET storageKey == StorageKey(workerName)
        saved == GetItem(ls, storageKey)
    IN  IF SavedTruthy(saved)
        THEN LET parsedFile == JSONParse(saved.text)
             IN  IF ~ parsedFile.ok
                 THEN [uploadedFile |-> uploaded,
                       storage |-> RemoveItem(ls, storageKey),
                       branch |-> "removed"]
                 ELSE IF HasRequiredFields(parsedFile)
                 THEN [uploadedFile |-> SomeFileData(parsedFile.obj),
                       storage |-> ls, branch |-> "adopted"]
                 ELSE [uploadedFile |-> uploaded, storage |-> ls,
                       branch |-> "ignored"]
        ELSE IF ~ resultFile.isNull
        THEN [uploadedFile |-> resultFile, storage |-> ls,
              branch |-> "resultFile"]
        ELSE [uploadedFile |-> uploaded, storage |-> ls, branch |-> "none"]

(***************************************************************************)
(* handleFilePreview                                                       *)
(***************************************************************************)
\* What window.open is given: nothing, the blob URL of a file
\* (URL.createObjectURL), or the Google viewer URL that carries the file's
\* data URL.
NoDocument == [via |-> "", file |-> NoFile]
BlobUrl(file) == [via |-> "blob", file |-> file]
GoogleViewerUrl(file) == [via |-> "gview-data-url", file |-> file]

PdfAfterReloadAlert ==
    "Cannot preview DOC/DOCX after reload. PDF preview only works before reload."
OtherAfterReloadAlert ==
    "Preview not available for DOC/DOCX after reload due to browser limitations."

\* Variant: one notice for every metadata-only preview.
FilePreviewOneNotice(uploaded, handle) ==
    IF uploaded.isNull
    THEN [opened |-> NoDocument, read |-> NullFileObject, alert |-> <<>>]
    ELSE IF ~ handle.isNull
    THEN (IF handle.file.type = Pdf
          THEN [opened |-> BlobUrl(handle.file), read |-> NullFileObject,
                alert |-> <<>>]
          ELSE [opened |-> NoDocument, read |-> handle, alert |-> <<>>])
    ELSE [opened |-> NoDocument, read |-> NullFileObject,
          alert |-> <<OtherAfterReloadAlert>>]

\* The body of handleFilePreview for the state uploaded/handle: the document
\* it opens at once, the file it starts a FileReader on, the alert it shows.
FilePreview(uploaded, handle) ==
    IF uploaded.isNull
    THEN [opened |-> NoDocument, read |-> NullFileObject, alert |-> <<>>]
    ELSE IF ~ handle.isNull
    THEN (IF handle.file.type = Pdf
          THEN [opened |-> BlobUrl(handle.file), read |-> NullFileObject,
                alert |-> <<>>]
          ELSE [opened |-> NoDocument, read |-> handle, alert |-> <<>>])
    ELSE IF uploaded.obj.type = JsStr(Pdf)
    THEN [opened |-> NoDocument, read |-> NullFileObject,
          alert |-> <<PdfAfterReloadAlert>>]
    ELSE [opened |-> NoDocument, read |-> NullFileObject,
          alert |-> <<OtherAfterReloadAlert>>]

\* reader.onload: e.target.result is the data URL of the file, a string that
\* begins with "data:" and so is truthy for every file; the viewer URL made
\* of it is opened.
ReaderOnloadOpens(file) == GoogleViewerUrl(file)

(***************************************************************************)
(* State                                                                   *)
(***************************************************************************)
\* The component instances (browser tabs) that share one localStorage.
Instances == {"tabA", "tabB"}
\* The tab that Spec drives.
SingleTab == {"tabA"}

VARIABLES
    mounted,       \* instance -> whether the component is mounted
    props,         \* instance -> worker name, status, resultFile, config
    isClient,      \* instance -> useState(false), set by the first effect
    dragActive,    \* instance -> useState(false)
    uploadedFile,  \* instance -> useState<FileData | null>(resultFile)
    fileObject,    \* instance -> useState<File | null>(null)
    localStorage,  \* key -> entry, shared by the instances
    now,           \* the clock new Date() reads
    reads,         \* the FileReader reads started and not yet completed
    last           \* what the latest step did and what the caller observed

vars == <<mounted, props, isClient, dragActive, uploadedFile, fileObject,
          localStorage, now, reads, last>>

NoProps == [worker |-> <<>>, status |-> "", resultFile |-> NullFileData,
            config |-> DefaultConfig]
\* What a step let the outside observe: the callbacks invoked, the alert
\* shown, console.warn, an exception out of the render, the document put in
\* a new browsing context; and, of an upload or a run of the load effect,
\* which way it went. Quiet: nothing.
Observed(op, i) ==
    [op |-> op, inst |-> i, outcome |-> "", calls |-> <<>>, alert |-> <<>>,
     warned |-> FALSE, threw |-> FALSE, opened |-> NoDocument]
Quiet == Observed("", "")

Init ==
    /\ mounted = [i \in Instances |-> FALSE]
    /\ props = [i \in Instances |-> NoProps]
    /\ isClient = [i \in Instances |-> FALSE]
    /\ dragActive = [i \in Instances |-> FALSE]
    /\ uploadedFile = [i \in Instances |-> NullFileData]
    /\ fileObject = [i \in Instances |-> NullFileObject]
    /\ \/ localStorage = EmptyStorage
       \/ \E text \in SeedTexts :
              localStorage = SetItem(EmptyStorage, StorageKey(JohnDoe), text)
    /\ now = 1
    /\ reads = <<>>
    /\ last = Quiet

(***************************************************************************)
(* Steps                                                                   *)
(***************************************************************************)
\* Time passes.
Tick ==
    /\ now < MaxClock
    /\ now' = now + 1
    /\ last' = Quiet
    /\ UNCHANGED <<mounted, props, isClient, dragActive, uploadedFile,
                   fileObject, localStorage, reads>>

\* The first render and commit of an instance: the useState initial values;
\* the first effect schedules isClient = true and the load effect returns
\* at once because isClient is still false. A render that throws mounts
\* nothing.
Mount(i, workerName, statusProp, resultFile, config) ==
    /\ ~ mounted[i]
    /\ LET status == EffectiveStatus(statusProp)
       IN  IF RenderThrows(status)
           THEN /\ last' = [Observed("mount", i) EXCEPT !.threw = TRUE,
                                                       !.outcome = status]
                /\ UNCHANGED <<mounted, props, isClient, dragActive,
                               uploadedFile, fileObject>>
           ELSE /\ mounted' = [mounted EXCEPT ![i] = TRUE]
                /\ props' = [props EXCEPT ![i] =
                                [worker |-> workerName, status |-> status,
                                 resultFile |-> resultFile,
                                 config |-> config]]
                /\ isClient' = [isClient EXCEPT ![i] = FALSE]
                /\ dragActive' = [dragActive EXCEPT ![i] = FALSE]
                /\ uploadedFile' = [uploadedFile EXCEPT ![i] = resultFile]
                /\ fileObject' = [fileObject EXCEPT ![i] = NullFileObject]
                /\ last' = Quiet
    /\ UNCHANGED <<localStorage, now, reads>>

\* The re-render with isClient = true, after which the load effect runs its
\* body for the first time.
ClientRender(i) ==
    /\ mounted[i]
    /\ ~ isClient[i]
    /\ LET r == LoadSavedFile(props[i].worker, props[i].resultFile,
                              uploadedFile[i], localStorage)
       IN  /\ isClient' = [isClient EXCEPT ![i] = TRUE]
           /\ uploadedFile' = [uploadedFile EXCEPT ![i] = r.uploadedFile]
           /\ localStorage' = r.storage
           /\ last' = [Observed("load", i) EXCEPT !.outcome = r.branch]
    /\ UNCHANGED <<mounted, props, dragActive, fileObject, now, reads>>

\* The page is closed or reloaded: the instance's state is gone.
Unmount(i) ==
    /\ mounted[i]
    /\ mounted' = [mounted EXCEPT ![i] = FALSE]
    /\ props' = [props EXCEPT ![i] = NoProps]
    /\ isClient' = [isClient EXCEPT ![i] = FALSE]
    /\ dragActive' = [dragActive EXCEPT ![i] = FALSE]
    /\ uploadedFile' = [uploadedFile EXCEPT ![i] = NullFileData]
    /\ fileObject' = [fileObject EXCEPT ![i] = NullFileObject]
    /\ last' = Quiet
    /\ UNCHANGED <<localStorage, now, reads>>

\* The drop zone and the file input are rendered only while uploadedFile is
\* null: `uploadedFile ? <preview/> : <drop zone/>`.
DropZoneRendered(i) == mounted[i] /\ uploadedFile[i].isNull

\* The state an upload handler leaves, and what the caller observed of it.
ApplyUpload(i, file, writeOk) ==
    LET r == HandleFileUpload(file, props[i].config, props[i].worker, now,
                              writeOk, uploadedFile[i], fileObject[i],
                              localStorage)
    IN  /\ uploadedFile' = [uploadedFile EXCEPT ![i] = r.uploadedFile]
        /\ fileObject' = [fileObject EXCEPT ![i] = r.fileObject]
        /\ localStorage' = r.storage
        /\ last' = [Observed("upload", i) EXCEPT
                       !.outcome = r.outcome, !.calls = r.calls,
                       !.alert = r.alert, !.warned = r.warned]

\* handleDrag: dragenter, dragover, dragleave on the drop zone.
HandleDrag(i, type) ==
    /\ DropZoneRendered(i)
    /\ dragActive' = [dragActive EXCEPT ![i] =
                         (type = "dragenter" \/ type = "dragover")]
    /\ last' = Quiet
    /\ UNCHANGED <<mounted, props, isClient, uploadedFile, fileObject,
                   localStorage, now, reads>>

\* handleDrop: setDragActive(false), then the first dropped file, if any.
HandleDrop(i, files, writeOk) ==
    /\ DropZoneRendered(i)
    /\ dragActive' = [dragActive EXCEPT ![i] = FALSE]
    /\ IF Len(files) > 0
       THEN ApplyUpload(i, files[1], writeOk)
       ELSE /\ last' = Quiet
            /\ UNCHANGED <<uploadedFile, fileObject, localStorage>>
    /\ UNCHANGED <<mounted, props, isClient, now, reads>>

\* handleFileInputChange: the first selected file, if any.
HandleFileInputChange(i, files, writeOk) ==
    /\ DropZoneRendered(i)
    /\ IF Len(files) > 0
       THEN ApplyUpload(i, files[1], writeOk)
       ELSE /\ last' = Quiet
            /\ UNCHANGED <<uploadedFile, fileObject, localStorage>>
    /\ UNCHANGED <<mounted, props, isClient, dragActive, now, reads>>

\* The preview card, with onClick={handleFilePreview}, is rendered only
\* while uploadedFile is not null.
PreviewCardRendered(i) == mounted[i] /\ ~ uploadedFile[i].isNull

\* handleFilePreview: a click on the preview card.
HandleFilePreview(i) ==
    /\ PreviewCardRendered(i)
    /\ LET r == FilePreview(uploadedFile[i], fileObject[i])
       IN  /\ r.read.isNull \/ Len(reads) < MaxReads
           /\ reads' = IF r.read.isNull THEN reads
                       ELSE Append(reads, r.read.file)
           /\ last' = [Observed("preview", i) EXCEPT !.opened = r.opened,
                                                     !.alert = r.alert]
    /\ UNCHANGED <<mounted, props, isClient, dragActive, uploadedFile,
                   fileObject, localStorage, now>>

\* reader.onload of the oldest read in progress; the reader belongs to no
\* state of the component and completes whatever has happened since.
ReaderOnload ==
    /\ Len(reads) > 0
    /\ reads' = Tail(reads)
    /\ last' = [Observed("onload", "") EXCEPT
                   !.opened = ReaderOnloadOpens(Head(reads))]
    /\ UNCHANGED <<mounted, props, isClient, dragActive, uploadedFile,
                   fileObject, localStorage, now>>

\* Object.is on the resultFile dependency: null is null; an object is the
\* same only when the caller passes the same reference again.
SameResultFile(old, new, sameRef) == old = new /\ (new.isNull \/ sameRef)

\* The dependencies [worker.name, resultFile, isClient] of the load effect,
\* compared across a re-render with new props.
LoadDepsChanged(i, workerName, resultFile, sameRef) ==
    \/ workerName # props[i].worker
    \/ ~ SameResultFile(props[i].resultFile, resultFile, sameRef)

\* The parent renders the component again with these props. The state is
\* kept; the load effect runs again when one of its dependencies changed,
\* and does nothing while isClient is false. A render that throws takes the
\* component off the page.
PropChange(i, workerName, statusProp, resultFile, config, sameRef) ==
    /\ mounted[i]
    /\ LET status == EffectiveStatus(statusProp)
       IN  IF RenderThrows(status)
           THEN /\ mounted' = [mounted EXCEPT ![i] = FALSE]
                /\ props' = [props EXCEPT ![i] = NoProps]
                /\ isClient' = [isClient EXCEPT ![i] = FALSE]
                /\ dragActive' = [dragActive EXCEPT ![i] = FALSE]
                /\ uploadedFile' = [uploadedFile EXCEPT ![i] = NullFileData]
                /\ fileObject' = [fileObject EXCEPT ![i] = NullFileObject]
                /\ last' = [Observed("render", i) EXCEPT !.threw = TRUE,
                                                        !.outcome = status]
                /\ UNCHANGED localStorage
           ELSE /\ props' = [props EXCEPT ![i] =
                                [worker |-> workerName, status |-> status,
                                 resultFile |-> resultFile,
                                 config |-> config]]
                /\ IF isClient[i]
                      /\ LoadDepsChanged(i, workerName, resultFile, sameRef)
                   THEN LET r == LoadSavedFile(workerName, resultFile,
                                               uploadedFile[i], localStorage)
                        IN  /\ uploadedFile' =
                                   [uploadedFile EXCEPT ![i] = r.uploadedFile]
                            /\ localStorage' = r.storage
                            /\ last' = [Observed("reload", i) EXCEPT
                                           !.outcome = r.branch]
                   ELSE /\ last' = Quiet
                        /\ UNCHANGED <<uploadedFile, localStorage>>
                /\ UNCHANGED <<mounted, isClient, dragActive, fileObject>>
    /\ UNCHANGED <<now, reads>>

Next ==
    \/ Tick
    \/ \E i \in SingleTab, w \in WorkerNames, st \in StatusProps,
          rf \in ResultFiles, cfg \in Configs : Mount(i, w, st, rf, cfg)
    \/ \E i \in SingleTab : ClientRender(i)
    \/ \E i \in SingleTab : Unmount(i)
    \/ \E i \in SingleTab, type \in {"dragenter", "dragover", "dragleave"} :
          HandleDrag(i, type)
    \/ \E i \in SingleTab, files \in FileLists, ok \in BOOLEAN :
          HandleDrop(i, files, ok)
    \/ \E i \in SingleTab, files \in FileLists, ok \in BOOLEAN :
          HandleFileInputChange(i, files, ok)

Spec == Init /\ [][Next]_vars

(***************************************************************************)
(* The life of a mounted card: re-renders with new props, preview          *)
(***************************************************************************)
\* The files, the cache entries found at page load and the status props of
\* this specification.
LiveFiles == {f \in Files : f.name \in {"report.pdf", "scan.doc", "notes.txt"}}
LiveFileLists == {<<>>} \cup {<<f>> : f \in LiveFiles}
LiveSeedTexts == {JSONStringify(OldRecord), NotJson}
LiveStatusProps == {JsUndef, JsStr("failed")}
LiveWorkerNames == {JohnDoe, JohnSmith}
LiveConfigs == {DefaultConfig}

InitLive ==
    /\ mounted = [i \in Instances |-> FALSE]
    /\ props = [i \in Instances |-> NoProps]
    /\ isClient = [i \in Instances |-> FALSE]
    /\ dragActive = [i \in Instances |-> FALSE]
    /\ uploadedFile = [i \in Instances |-> NullFileData]
    /\ fileObject = [i \in Instances |-> NullFileObject]
    /\ \/ localStorage = EmptyStorage
       \/ \E text \in LiveSeedTexts :
              localStorage = SetItem(EmptyStorage, StorageKey(JohnDoe), text)
    /\ now = 1
    /\ reads = <<>>
    /\ last = Quiet

NextLive ==
    \/ Tick
    \/ \E i \in SingleTab, w \in LiveWorkerNames, st \in LiveStatusProps,
          rf \in ResultFiles, cfg \in LiveConfigs : Mount(i, w, st, rf, cfg)
    \/ \E i \in SingleTab : ClientRender(i)
    \/ \E i \in SingleTab : Unmount(i)
    \/ \E i \in SingleTab, type \in {"dragenter", "dragover", "dragleave"} :
          HandleDrag(i, type)
    \/ \E i \in SingleTab, files \in LiveFileLists, ok \in BOOLEAN :
          HandleDrop(i, files, ok)
    \/ \E i \in SingleTab, files \in LiveFileLists, ok \in BOOLEAN :
          HandleFileInputChange(i, files, ok)
    \/ \E i \in SingleTab, w \in LiveWorkerNames, st \in LiveStatusProps,
          rf \in ResultFiles, cfg \in LiveConfigs, same \in BOOLEAN :
          PropChange(i, w, st, rf, cfg, same)
    \/ \E i \in SingleTab : HandleFilePreview(i)
    \/ ReaderOnload

SpecLive == InitLive /\ [][NextLive]_vars

(***************************************************************************)
(* Two tabs on the same worker                                             *)
(***************************************************************************)
\* Both tabs show a card whose worker has the key medical_result_John_Doe,
\* with the default props; the cache is empty or holds an older record.
TabFiles == {f \in Files : f.name \in {"report.pdf", "scan.doc", "empty.pdf"}}
TabFileLists == {<<>>} \cup {<<f>> : f \in TabFiles}
TabSeedTexts == {JSONStringify(OldRecord)}

InitTabs ==
    /\ mounted = [i \in Instances |-> FALSE]
    /\ props = [i \in Instances |-> NoProps]
    /\ isClient = [i \in Instances |-> FALSE]
    /\ dragActive = [i \in Instances |-> FALSE]
    /\ uploadedFile = [i \in Instances |-> NullFileData]
    /\ fileObject = [i \in Instances |-> NullFileObject]
    /\ \/ localStorage = EmptyStorage
       \/ \E text \in TabSeedTexts :
              localStorage = SetItem(EmptyStorage, StorageKey(JohnDoe), text)
    /\ now = 1
    /\ reads = <<>>
    /\ last = Quiet

NextTabs ==
    \/ Tick
    \/ \E i \in Instances, w \in WorkerNames :
          Mount(i, w, JsUndef, NullFileData, DefaultConfig)
    \/ \E i \in Instances : ClientRender(i)
    \/ \E i \in Instances : Unmount(i)
    \/ \E i \in Instances, files \in TabFileLists, ok \in BOOLEAN :
          HandleDrop(i, files, ok)
    \/ \E i \in Instances, files \in TabFileLists, ok \in BOOLEAN :
          HandleFileInputChange(i, files, ok)

SpecTabs == InitTabs /\ [][NextTabs]_vars

(***************************************************************************)
(* Properties                                                              *)
(***************************************************************************)
\* The key the specification names for "John Doe".
JohnDoeKey == <<"medical_result_", "J", "o", "h", "n", "_", "D", "o", "e">>

\* The step is handleFileUpload(file) in instance i, reached through the
\* drop zone or the file input.
UploadStep(i, file, writeOk) ==
    \/ HandleDrop(i, <<file>>, writeOk)
    \/ HandleFileInputChange(i, <<file>>, writeOk)

\* The limit and the allow-list of instance i, read off its props.
OverLimit(i, file) ==
    file.size > props[i].config.maxFileSizeMB * 1024 * 1024
TypeAllowed(i, file) ==
    \E j \in 1..Len(props[i].config.allowedFileTypes) :
        props[i].config.allowedFileTypes[j] = file.type

\* The record {name, size, type, uploadedAt} of a file uploaded at time ms.
RecordOf(file, ms) ==
    [name |-> [t |-> "string", s |-> file.name, n |-> 0],
     size |-> [t |-> "number", s |-> "", n |-> file.size],
     type |-> [t |-> "string", s |-> file.type, n |-> 0],
     uploadedAt |-> [t |-> "string", s |-> ToISOString(ms), n |-> 0]]

\* An upload that rejects leaves the instance, the cache entry and the
\* caller untouched.
Untouched(i) ==
    /\ uploadedFile'[i] = uploadedFile[i]
    /\ fileObject'[i] = fileObject[i]
    /\ localStorage'[StorageKey(props[i].worker)]
           = localStorage[StorageKey(props[i].worker)]
    /\ last'.calls = <<>>

\* C1: a file larger than maxFileSizeMB * 1024 * 1024 bytes is rejected:
\* uploadedFile, the file handle and the worker's cache entry are unchanged
\* and neither callback is invoked.
C1_OversizedRejected ==
    [][\A i \in Instances, f \in Files, ok \in BOOLEAN :
          (OverLimit(i, f) /\ UploadStep(i, f, ok))
              => (Untouched(i) /\ Len(last'.alert) > 0)]_vars
C1_Witness ==
    /\ last.op = "upload"
    /\ last.alert = <<"File size must be less than ", "10", "MB">>
    /\ localStorage[JohnDoeKey].has

\* C2: a file within the size limit whose MIME type is not in
\* allowedFileTypes is rejected: uploadedFile, the file handle and the
\* worker's cache entry are unchanged and neither callback is invoked.
C2_DisallowedTypeRejected ==
    [][\A i \in Instances, f \in Files, ok \in BOOLEAN :
          (~ OverLimit(i, f) /\ ~ TypeAllowed(i, f) /\ UploadStep(i, f, ok))
              => (Untouched(i) /\ Len(last'.alert) > 0)]_vars
C2_Witness ==
    /\ last.op = "upload"
    /\ last.alert = <<"Allowed file types: ", "PDF", ", ", "DOCX", ", ", "DOC">>
    /\ localStorage[JohnDoeKey].has

\* C3: a file that passes both checks, whatever the status was, becomes
\* uploadedFile as the record {name, size, type, uploadedAt}; onFileUpload
\* is invoked once with that record and then onStatusChange once with
\* pending.
C3_AcceptedUpload ==
    [][\A i \in Instances, f \in Files, ok \in BOOLEAN :
          (~ OverLimit(i, f) /\ TypeAllowed(i, f) /\ UploadStep(i, f, ok))
              => /\ uploadedFile'[i] = SomeFileData(RecordOf(f, now))
                 /\ fileObject'[i] = SomeFileObject(f)
                 /\ last'.calls =
                        << [fn |-> "onFileUpload",
                            file |-> SomeFileData(RecordOf(f, now)),
                            status |-> ""],
                           [fn |-> "onStatusChange", file |-> NullFileData,
                            status |-> "pending"] >>]_vars
C3_Witness ==
    \E i \in Instances :
        /\ last.op = "upload"
        /\ last.inst = i
        /\ Len(last.calls) = 2
        /\ props[i].status = "replace"
        /\ uploadedFile[i] = last.calls[1].file
        /\ uploadedFile[i].obj.uploadedAt.s = ToISOString(MaxClock)

\* C4: when the cache write throws during an otherwise successful upload,
\* the upload still completes: uploadedFile is the new record and both
\* callbacks are invoked; the failure is only logged and the cache is as it
\* was.
C4_WriteFailureTolerated ==
    [][\A i \in Instances, f \in Files :
          (~ OverLimit(i, f) /\ TypeAllowed(i, f) /\ UploadStep(i, f, FALSE))
              => /\ uploadedFile'[i] = SomeFileData(RecordOf(f, now))
                 /\ Len(last'.calls) = 2
                 /\ last'.calls[1].fn = "onFileUpload"
                 /\ last'.calls[2] = [fn |-> "onStatusChange",
                                      file |-> NullFileData,
                                      status |-> "pending"]
                 /\ last'.warned
                 /\ ~ last'.threw
                 /\ localStorage' = localStorage]_vars
C4_Witness ==
    \E i \in Instances :
        /\ last.op = "upload"
        /\ last.inst = i
        /\ last.warned
        /\ Len(last.calls) = 2
        /\ ~ uploadedFile[i].isNull
        /\ ~ localStorage[StorageKey(props[i].worker)].has

\* The cache entry the load effect of instance i reads, and its parse.
EntryOf(i) == localStorage[StorageKey(props[i].worker)]
ParsedEntryOf(i) == JSONParse(EntryOf(i).text)

\* A record with a non-empty name, a positive size and a non-empty type.
StructurallyValid(o) ==
    /\ o.name.t = "string" /\ o.name.s # ""
    /\ o.size.t = "number" /\ o.size.n > 0
    /\ o.type.t = "string" /\ o.type.s # ""

\* C5: on mount, a cache entry that is present and structurally valid
\* becomes uploadedFile, whatever resultFile the caller passed.
C5_ValidEntryAdopted ==
    [][\A i \in Instances :
          ( /\ ClientRender(i)
            /\ EntryOf(i).has
            /\ ParsedEntryOf(i).ok
            /\ ParsedEntryOf(i).isObj
            /\ StructurallyValid(ParsedEntryOf(i).obj) )
              => uploadedFile'[i] = SomeFileData(ParsedEntryOf(i).obj)]_vars
C5_Witness ==
    \E i \in Instances :
        /\ last.op = "load"
        /\ last.inst = i
        /\ last.outcome = "adopted"
        /\ props[i].resultFile = SomeFileData(CallerRecord)
        /\ uploadedFile[i] = SomeFileData(OldRecord)
        /\ EntryOf(i) = Entry(JSONStringify(OldRecord))

\* C6: on mount, a cache entry that is present and is no parseable JSON is
\* deleted, nothing is thrown, and uploadedFile is the caller's resultFile
\* (null if there is none).
C6_UnparseableEntryDeleted ==
    [][\A i \in Instances :
          ( /\ ClientRender(i)
            /\ EntryOf(i).has
            /\ ~ ParsedEntryOf(i).ok )
              => /\ ~ last'.threw
                 /\ ~ localStorage'[StorageKey(props[i].worker)].has
                 /\ uploadedFile'[i] = props[i].resultFile]_vars

\* What the code does for C6's entries: deleted unless the entry is the
\* empty string.
C6_NonEmptyUnparseableEntryDeleted ==
    [][\A i \in Instances :
          ( /\ ClientRender(i)
            /\ EntryOf(i).has
            /\ EntryOf(i).text # <<>>
            /\ ~ ParsedEntryOf(i).ok )
              => /\ ~ last'.threw
                 /\ ~ localStorage'[StorageKey(props[i].worker)].has
                 /\ uploadedFile'[i] = uploadedFile[i]]_vars

\* A parsed entry that is an object and lacks name, size or type.
MissingRequiredField(parsed) ==
    /\ parsed.isObj
    /\ \/ parsed.obj.name.t = "undefined"
       \/ parsed.obj.size.t = "undefined"
       \/ parsed.obj.type.t = "undefined"

\* C7: on mount, a cache entry that parses as JSON and lacks name, size or
\* type is deleted, and uploadedFile is the caller's resultFile.
C7_IncompleteEntryDeleted ==
    [][\A i \in Instances :
          ( /\ ClientRender(i)
            /\ EntryOf(i).has
            /\ ParsedEntryOf(i).ok
            /\ MissingRequiredField(ParsedEntryOf(i)) )
              => /\ ~ localStorage'[StorageKey(props[i].worker)].has
                 /\ uploadedFile'[i] = props[i].resultFile]_vars

\* What the code does for C7's entries: the entry stays, uploadedFile too.
C7_IncompleteEntryKept ==
    [][\A i \in Instances :
          ( /\ ClientRender(i)
            /\ EntryOf(i).has
            /\ ParsedEntryOf(i).ok
            /\ MissingRequiredField(ParsedEntryOf(i)) )
              => /\ localStorage' = localStorage
                 /\ uploadedFile'[i] = uploadedFile[i]]_vars

\* Some configuration accepts the file.
Acceptable(f) ==
    \E cfg \in Configs :
        /\ f.size <= cfg.maxFileSizeMB * 1024 * 1024
        /\ \E j \in 1..Len(cfg.allowedFileTypes) :
               cfg.allowedFileTypes[j] = f.type

\* An accepted upload whose write succeeds stores the record's JSON text
\* under medical_result_John_Doe, for either spelling of the name.
WrittenUnderKey ==
    \A i \in Instances, f \in Files :
        (~ OverLimit(i, f) /\ TypeAllowed(i, f) /\ UploadStep(i, f, TRUE))
            => localStorage'[JohnDoeKey]
                   = Entry(JSONStringify(RecordOf(f, now)))

\* An instance whose load effect finds the text written for file f at time
\* ms displays exactly that record.
RestoredOnMount(f, ms) ==
    \A i \in Instances :
        ( /\ ClientRender(i)
          /\ localStorage[JohnDoeKey]
                 = Entry(JSONStringify(RecordOf(f, ms))) )
            => uploadedFile'[i] = SomeFileData(RecordOf(f, ms))

\* C8, as claimed: every accepted file's record is written under the
\* worker's key and is what a fresh mount for that worker displays.
C8_RoundTripEveryFile ==
    [][/\ WrittenUnderKey
       /\ \A f \in Files, ms \in 1..MaxClock :
              Acceptable(f) => RestoredOnMount(f, ms)]_vars

\* C8, amended: the same for every accepted file with a non-empty name and
\* a positive size.
C8_RoundTrip ==
    [][/\ WrittenUnderKey
       /\ \A f \in Files, ms \in 1..MaxClock :
              (Acceptable(f) /\ f.size > 0 /\ f.name # "")
                  => RestoredOnMount(f, ms)]_vars
C8_Witness ==
    \E i \in Instances, ms \in 1..MaxClock :
        /\ last.op = "load"
        /\ last.inst = i
        /\ last.outcome = "adopted"
        /\ fileObject[i].isNull
        /\ props[i].worker = JohnDoeWide
        /\ uploadedFile[i] =
               SomeFileData(RecordOf([name |-> "report.pdf",
                                      size |-> 2 * 1024 * 1024,
                                      type |-> Pdf], ms))
        /\ localStorage[JohnDoeKey] = Entry(JSONStringify(uploadedFile[i].obj))

\* C9: the load effect adopts a cache entry only if its name is non-empty,
\* its size positive and its type non-empty.
C9_OnlyValidEntryAdopted ==
    [][\A i \in Instances :
          ( /\ ClientRender(i)
            /\ EntryOf(i).has
            /\ ParsedEntryOf(i).ok
            /\ uploadedFile'[i] # uploadedFile[i]
            /\ uploadedFile'[i] = SomeFileData(ParsedEntryOf(i).obj) )
              => StructurallyValid(ParsedEntryOf(i).obj)]_vars

\* C10: every status, in the enumeration or not, renders: each of the five
\* has a display tuple and any other value gets the tuple of unknown.
C10_StatusMappingTotal ==
    [][\A i \in Instances, w \in WorkerNames, st \in StatusProps,
          rf \in ResultFiles, cfg \in Configs :
          Mount(i, w, st, rf, cfg)
              => /\ ~ last'.threw
                 /\ mounted'[i]
                 /\ StatusConfig(EffectiveStatus(st)).defined
                 /\ EffectiveStatus(st) \notin StatusNames
                        => StatusConfig(EffectiveStatus(st))
                               = StatusConfig("unknown")]_vars

\* What the code does for C10's statuses: the render throws exactly when the
\* status is none of accepted, pending, replace.
C10_RenderThrowsOutsideThree ==
    [][\A i \in Instances, w \in WorkerNames, st \in StatusProps,
          rf \in ResultFiles, cfg \in Configs :
          Mount(i, w, st, rf, cfg)
              => (last'.threw <=>
                    EffectiveStatus(st) \notin {"accepted", "pending",
                                                "replace"})]_vars

\* C11: once uploadedFile of a mounted instance is not null it stays not
\* null for as long as the instance is mounted: no upload, rejected upload,
\* preview, drag event, prop change or re-run of the load effect sets it
\* back to null.
C11_PopulatedStays ==
    [][\A i \in Instances :
          (mounted[i] /\ ~ uploadedFile[i].isNull /\ mounted'[i])
              => ~ uploadedFile'[i].isNull]_vars
\* A populated instance whose load effect ran again, on a worker without a
\* usable cache entry and with no resultFile, and which is still populated.
C11_Witness ==
    \E i \in Instances :
        /\ mounted[i]
        /\ last.op = "reload"
        /\ last.inst = i
        /\ last.outcome \in {"none", "removed"}
        /\ props[i].resultFile.isNull
        /\ ~ uploadedFile[i].isNull

\* C12: from a populated instance a new valid upload is possible: some file
\* can be dropped or selected, and the step makes uploadedFile that file's
\* record and invokes onStatusChange("pending").
C12_ReplaceWhilePopulated ==
    \A i \in Instances :
        (mounted[i] /\ ~ uploadedFile[i].isNull)
            => \E f \in Files :
                   ENABLED ( /\ UploadStep(i, f, TRUE)
                             /\ uploadedFile'[i] =
                                    SomeFileData(RecordOf(f, now))
                             /\ Len(last'.calls) = 2
                             /\ last'.calls[2] = [fn |-> "onStatusChange",
                                                  file |-> NullFileData,
                                                  status |-> "pending"] )

\* What the code does for C12: handleFileUpload is reached only from the
\* drop zone and the file input, and both exist only while uploadedFile is
\* null, so every upload step starts from an empty instance.
C12_UploadOnlyWhileEmpty ==
    [][\A i \in Instances, f \in Files, ok \in BOOLEAN :
          UploadStep(i, f, ok) => uploadedFile[i].isNull]_vars

\* Preview and the completion of a read leave the component's state and the
\* cache alone and invoke no callback.
PreviewInert ==
    /\ uploadedFile' = uploadedFile
    /\ fileObject' = fileObject
    /\ localStorage' = localStorage
    /\ last'.calls = <<>>

\* A click on the preview card of instance i. With the handle: a PDF is
\* opened through its blob URL, any other file is handed to a FileReader
\* and nothing is opened yet, and no notice is shown. Without the handle:
\* nothing is opened or read, and the notice is the PDF one exactly when the
\* metadata's type is application/pdf.
PreviewAsClaimed(i) ==
    HandleFilePreview(i)
        => /\ PreviewInert
           /\ IF fileObject[i].isNull
              THEN /\ last'.opened = NoDocument
                   /\ reads' = reads
                   /\ last'.alert =
                          IF uploadedFile[i].obj.type = JsStr(Pdf)
                          THEN <<PdfAfterReloadAlert>>
                          ELSE <<OtherAfterReloadAlert>>
                   /\ PdfAfterReloadAlert # OtherAfterReloadAlert
              ELSE /\ last'.alert = <<>>
                   /\ IF fileObject[i].file.type = Pdf
                      THEN /\ last'.opened = BlobUrl(fileObject[i].file)
                           /\ reads' = reads
                      ELSE /\ last'.opened = NoDocument
                           /\ reads' = Append(reads, fileObject[i].file)

\* The completion of a read opens the viewer on the data URL of the file
\* that was read.
OnloadAsClaimed ==
    ReaderOnload
        => /\ PreviewInert
           /\ last'.opened = GoogleViewerUrl(Head(reads))
           /\ last'.alert = <<>>

RawMimeStrings ==
    UNION {{cfg.allowedFileTypes[j] : j \in 1..Len(cfg.allowedFileTypes)} :
              cfg \in Configs}
        \cup {f.type : f \in Files}

\* The message of a type rejection names each configured type once, after
\* the prefix and between separators, and no piece of it is a MIME string.
HumanReadableTypeMessage(message, allowedFileTypes) ==
    /\ Len(message) = 2 * Len(allowedFileTypes)
    /\ \A j \in 1..Len(message) : message[j] \notin RawMimeStrings

\* C14: for every configured allow-list, the message of a type rejection
\* enumerates the allowed types by human-readable names (PDF, DOCX, DOC for
\* the default list) and contains no raw MIME string.
C14_TypeMessageHumanReadable ==
    [][\A i \in Instances, f \in Files, ok \in BOOLEAN :
          (UploadStep(i, f, ok) /\ ~ OverLimit(i, f) /\ ~ TypeAllowed(i, f))
              => /\ HumanReadableTypeMessage(
                        last'.alert, props[i].config.allowedFileTypes)
                 /\ props[i].config.allowedFileTypes = <<Pdf, Docx, Doc>>
                        => last'.alert = <<"Allowed file types: ", "PDF",
                                           ", ", "DOCX", ", ", "DOC">>]_vars

\* What the code does for C14: the message is human-readable when every
\* configured type is one of the three the switch names.
C14_KnownTypesHumanReadable ==
    [][\A i \in Instances, f \in Files, ok \in BOOLEAN :
          ( /\ UploadStep(i, f, ok)
            /\ ~ OverLimit(i, f)
            /\ ~ TypeAllowed(i, f)
            /\ \A j \in 1..Len(props[i].config.allowedFileTypes) :
                   props[i].config.allowedFileTypes[j] \in {Pdf, Docx, Doc} )
              => HumanReadableTypeMessage(
                     last'.alert, props[i].config.allowedFileTypes)]_vars

\* Instance i accepts file f: within its limit and of an allowed type.
AcceptedBy(i, f) == ~ OverLimit(i, f) /\ TypeAllowed(i, f)

\* Every accepted upload by either tab, with writeOk among writes, leaves
\* its record as the entry of the tab's key.
UploadSetsEntry(writes) ==
    \A i \in Instances, f \in Files, ok \in writes :
        (UploadStep(i, f, ok) /\ AcceptedBy(i, f))
            => localStorage'[StorageKey(props[i].worker)]
                   = Entry(JSONStringify(RecordOf(f, now)))

\* Between uploads the entry stays: a step that changes an entry is an
\* accepted upload, with writeOk among writes, by a tab on that key.
OnlyUploadsChangeEntry(writes) ==
    \A k \in StorageKeys :
        localStorage'[k] # localStorage[k]
            => \E i \in Instances, f \in Files, ok \in writes :
                   /\ UploadStep(i, f, ok)
                   /\ AcceptedBy(i, f)
                   /\ StorageKey(props[i].worker) = k

\* An instance whose load effect runs for the first time on the entry
\* written for file f at time ms displays that record.
MountedAfterwardsDisplays(f, ms) ==
    \A i \in Instances :
        ( /\ ClientRender(i)
          /\ EntryOf(i) = Entry(JSONStringify(RecordOf(f, ms))) )
            => uploadedFile'[i] = SomeFileData(RecordOf(f, ms))

\* C15 as stated: with two tabs on one key, whatever the interleaving, the
\* entry is the record of the most recent accepted upload by either tab,
\* and an instance mounted afterwards displays it.
C15_LastUploadWins ==
    [][ /\ UploadSetsEntry(BOOLEAN)
        /\ OnlyUploadsChangeEntry(BOOLEAN)
        /\ \A f \in Files, ms \in 1..MaxClock :
               MountedAfterwardsDisplays(f, ms) ]_vars

\* C15, amended: the entry is the record of the most recent accepted upload
\* whose cache write succeeded, by either tab; an instance mounted
\* afterwards displays it when its name is not empty and its size positive.
C15_LastWriterWins ==
    [][ /\ UploadSetsEntry({TRUE})
        /\ OnlyUploadsChangeEntry({TRUE})
        /\ \A f \in Files, ms \in 1..MaxClock :
               (f.name # "" /\ f.size > 0)
                   => MountedAfterwardsDisplays(f, ms) ]_vars
\* Both tabs are on the same key and each has uploaded a file of its own,
\* tabB last: the entry is tabB's record and not tabA's.
C15_Witness ==
    /\ mounted["tabA"] /\ mounted["tabB"]
    /\ StorageKey(props["tabA"].worker) = StorageKey(props["tabB"].worker)
    /\ ~ fileObject["tabA"].isNull
    /\ ~ fileObject["tabB"].isNull
    /\ fileObject["tabA"].file # fileObject["tabB"].file
    /\ last.op = "upload"
    /\ last.inst = "tabB"
    /\ last.outcome = "uploaded"
    /\ ~ last.warned
    /\ localStorage[JohnDoeKey]
           = Entry(JSONStringify(uploadedFile["tabB"].obj))
    /\ localStorage[JohnDoeKey]
           # Entry(JSONStringify(uploadedFile["tabA"].obj))

\* Instance i displays the record of the file it holds the handle of: the
\* record its latest upload made.
DisplaysUpload(i) ==
    /\ ~ fileObject[i].isNull
    /\ \E ms \in 1..MaxClock :
           uploadedFile[i] = SomeFileData(RecordOf(fileObject[i].file, ms))

\* C16: once the load effect has had its first run, the record M of a
\* successful upload stays the displayed uploadedFile for as long as the
\* instance is mounted and uploads nothing else: no re-run of the load
\* effect, after a changed resultFile or worker or any re-render, replaces
\* it, also when the cache write for M failed.
C16_UploadedRecordStays ==
    [][\A i \in Instances :
          (mounted[i] /\ mounted'[i] /\ isClient[i] /\ DisplaysUpload(i))
              => uploadedFile'[i] = uploadedFile[i]]_vars

\* What the code does for C16: a re-run of the load effect keeps M when the
\* key of the new worker prop holds the entry written for M, or holds no
\* usable entry while resultFile is null.
C16_StaysWhenEntryIsOwnOrNothingElse ==
    [][\A i \in Instances, w \in LiveWorkerNames, st \in LiveStatusProps,
          rf \in ResultFiles, cfg \in LiveConfigs, same \in BOOLEAN :
          ( /\ PropChange(i, w, st, rf, cfg, same)
            /\ mounted'[i]
            /\ DisplaysUpload(i)
            /\ \/ localStorage[StorageKey(w)]
                      = Entry(JSONStringify(uploadedFile[i].obj))
               \/ /\ rf.isNull
                  /\ ~ HasRequiredFields(
                           JSONParse(localStorage[StorageKey(w)].text)) )
              => uploadedFile'[i] = uploadedFile[i]]_vars

\* The displayed metadata of instance i is that of the file it holds.
HandleMatchesDisplayed(i) ==
    /\ ~ uploadedFile[i].isNull
    /\ uploadedFile[i].obj.name = JsStr(fileObject[i].file.name)
    /\ uploadedFile[i].obj.size = JsNum(fileObject[i].file.size)
    /\ uploadedFile[i].obj.type = JsStr(fileObject[i].file.type)

\* C17: in every reachable state, an instance that holds a file handle
\* displays an uploadedFile with that file's name, size and type.
C17_HandleMatchesDisplayed ==
    \A i \in Instances :
        ~ fileObject[i].isNull => HandleMatchesDisplayed(i)

\* What the code does for C17: handle and metadata agree right after every
\* accepted upload, and preview, drag, time and reader completion keep them
\* in agreement; only a run of the load effect separates them.
C17_OnlyLoadEffectSeparates ==
    [][\A i \in Instances :
          ( /\ ~ fileObject'[i].isNull
            /\ ~ HandleMatchesDisplayed(i)'
            /\ fileObject[i].isNull \/ HandleMatchesDisplayed(i) )
              => /\ last'.op \in {"load", "reload"}
                 /\ last'.inst = i
                 /\ last'.outcome \in {"adopted", "resultFile"}]_vars

=============================================================================
